---- MODULE Spec2Model ----
(***************************************************************************)
(* Model of the goodbirds-site "mega map" build scripts                    *)
(* (scripts/build_mega_map.py and scripts/build_mega_map_archive.py).      *)
(*                                                                         *)
(* Python strings are modelled as sequences of code points, so that        *)
(* str.lower(), str.strip() and the lexicographic comparison used by       *)
(* sorted() are computed the way Python computes them.  Python's None is   *)
(* the value None below.                                                   *)
(***************************************************************************)
EXTENDS Integers, Sequences, FiniteSets, TLC

VARIABLES
    pc,         \* position of the running function
    shard,      \* fetch: 1-based index of the next region of the loop
    out,        \* fetch: the list `out`
    seen,       \* fetch: the set `seen`
    log,        \* fetch: requests, sleeps and error prints, in order
    responses,  \* fetch: what each region answered, in region order
    records,    \* cap_records: the argument `records`
    per_species_max, \* cap_records: the argument `per_species_max`
    national_max,    \* cap_records: the argument `national_max`
    capped,     \* what cap_records of build_mega_map.py returned
    cappedArchive,   \* what cap_records of build_mega_map_archive.py returned
    files,      \* main: the file system, path -> content
    written,    \* main: the paths written by this run, in order
    exit_code,  \* main: the exit status, -1 while the process runs
    mode,       \* main: MEGA_MODE
    target_codes,    \* main: the tiers of --codes
    allowed_set,     \* main: the union set returned by the classifier
    code4_set,  \* main: the tier-4 set load_code_sets returned
    code5_set,  \* main: the tier-5 set load_code_sets returned
    raw,        \* main: the fetched records
    picked,     \* main: the list `picked`
    points,     \* main: the list `points`
    markers,    \* main: the markers build_map_html added to the map
    fatal,      \* main: the sys.exit call that ended the run, "" if none did
    pickedArchive,   \* main of build_mega_map_archive.py: its list `picked`
    name,       \* names: the argument of normalize_name and expand_variants
    normalized,      \* names: normalize_name(name)
    renormalized,    \* names: normalize_name(normalize_name(name))
    variants,   \* names: the list expand_variants(name) returned
    tax_header, \* classifier: the header line of the taxonomy file, as cells
    tax_rows,   \* classifier: the lines after it, as cells
    aba_lines,  \* classifier: the lines of the checklist file, as cells
    name_cand,  \* classifier: the taxonomy column of the names
    spc_col,    \* classifier: the taxonomy column of the species codes
    name_to_code,    \* classifier: the dict `name_to_code`
    header_idx, \* classifier: 1-based index of the checklist's header line
    code_col,   \* classifier: the checklist column of the rarity codes
    name_col,   \* classifier: the checklist column of the names
    row,        \* classifier: 1-based index of the next row of `rdr`
    per_code_map,    \* classifier: the dict `per_code_map`
    unresolved, \* classifier: the list `unresolved`
    row_variants,    \* classifier: what expand_variants returned, row by row
    unresolved_csv   \* classifier: the rows written under the header of
                     \* unresolved_names.csv, NotWritten while there is none

fetchVars == <<shard, out, seen, log, responses>>
capVars == <<records, per_species_max, national_max, capped, cappedArchive>>
mainVars == <<files, written, exit_code, mode, target_codes, allowed_set,
              code4_set, code5_set, raw, picked, points, markers,
              fatal, pickedArchive>>
nameVars == <<name, normalized, renormalized, variants>>
loadVars == <<tax_header, tax_rows, aba_lines, name_cand, spc_col, name_to_code,
              header_idx, code_col, name_col, row, per_code_map, unresolved,
              row_variants, unresolved_csv>>
classifierVars == <<nameVars, loadVars>>
vars == <<pc, fetchVars, capVars, mainVars, classifierVars>>

-----------------------------------------------------------------------------
(* Python values *)

None == <<-1>>

\* code points used by the inputs below
SP == 32
ChA == 65
Ch0 == 48
Ch1 == 49
Ch2 == 50
Ch5 == 53
Cha == 97
Chb == 98
Chx == 120

\* the content of a file that was not written
NotWritten == <<None>>

\* `x or ""`
OrEmpty(x) == IF x = None THEN <<>> ELSE x

\* Python truthiness of an optional string
Truthy(x) == x # None /\ x # <<>>

LowerCh(c) == IF c >= 65 /\ c <= 90 THEN c + 32 ELSE c

\* str.lower()
Lower(s) == [k \in 1..Len(s) |-> LowerCh(s[k])]

IsSpace(c) == c \in {9, 10, 11, 12, 13, 32}

RECURSIVE LStrip(_)
LStrip(s) == IF s # <<>> /\ IsSpace(Head(s)) THEN LStrip(Tail(s)) ELSE s

RECURSIVE RStrip(_)
RStrip(s) ==
    IF s # <<>> /\ IsSpace(s[Len(s)]) THEN RStrip(SubSeq(s, 1, Len(s) - 1)) ELSE s

\* str.strip()
Strip(s) == RStrip(LStrip(s))

\* Python's `a < b` on strings: lexicographic by code point
RECURSIVE StrLess(_, _)
StrLess(a, b) ==
    IF b = <<>> THEN FALSE
    ELSE IF a = <<>> THEN TRUE
    ELSE IF Head(a) # Head(b) THEN Head(a) < Head(b)
    ELSE StrLess(Tail(a), Tail(b))

-----------------------------------------------------------------------------
(* Region sharding *)

\* number of regions of the shard list the model iterates over
NumShards == 2

\* longest response of one region
MaxResp == 2

\* regions = US_STATES + CA_PROVINCES, as positions of the list
Regions == [k \in 1..NumShards |-> k]

-----------------------------------------------------------------------------
(* eBird records *)

Rec(sub, sc, dt, la, ln) ==
    [subId |-> sub, speciesCode |-> sc, obsDt |-> dt, lat |-> la, lng |-> ln]

S1 == <<83, 49>>
S2 == <<83, 50>>

\* records a region may answer with: (S1, "a", "1"), (S1, "A", "2") and
\* (S1, "a ", "1")
FetchRecords ==
    {Rec(S1, <<Cha>>, <<Ch1>>, 0, 0),
     Rec(S1, <<ChA>>, <<Ch2>>, 0, 0),
     Rec(S1, <<Cha, SP>>, <<Ch1>>, 0, 0)}

SeqsUpTo(S, n) == UNION {[1..k -> S] : k \in 0..n}

FetchData == SeqsUpTo(FetchRecords, MaxResp)

\* statuses for which raise_for_status() raises requests.HTTPError
HTTPErrorStatuses == {400, 429, 500}

\* pick_recent_fields: the fields the model carries
pick_recent_fields(rec) ==
    [subId |-> rec.subId,
     speciesCode |-> Strip(Lower(OrEmpty(rec.speciesCode))),
     obsDt |-> rec.obsDt,
     lat |-> rec.lat,
     lng |-> rec.lng]

\* the key of the dedup in fetch_recent_notables_sharded
FetchKey(rec) == <<rec.subId, Lower(OrEmpty(rec.speciesCode))>>

\* a dedup that lets a later record with a seen key replace the retained one
RECURSIVE AccumulateLastWins(_, _, _)
AccumulateLastWins(o, sn, data) ==
    IF data = <<>> THEN <<o, sn>>
    ELSE LET rec == Head(data)
             key == <<rec.subId, Lower(OrEmpty(rec.speciesCode))>>
         IN IF key \in sn
            THEN AccumulateLastWins(
                     [k \in 1..Len(o) |->
                        IF <<o[k].subId, Lower(OrEmpty(o[k].speciesCode))>> = key
                        THEN rec ELSE o[k]],
                     sn, Tail(data))
            ELSE AccumulateLastWins(Append(o, rec), sn \cup {key}, Tail(data))

\* the `for rec in data` loop: returns <<out, seen>> after the loop
RECURSIVE Accumulate(_, _, _)
Accumulate(o, sn, data) ==
    IF data = <<>> THEN <<o, sn>>
    ELSE LET rec == Head(data)
             key == FetchKey(rec)
         IN IF key \in sn
            THEN Accumulate(o, sn, Tail(data))
            ELSE Accumulate(Append(o, rec), sn \cup {key}, Tail(data))

\* the except-branch of the loop: it prints the error and continues with the
\* next region, without a sleep and without another request
ExceptHTTPErrorRetrying(s, status) ==
    [events |-> IF status = 429
                THEN << <<"sleep", Regions[s]>>, <<"get", Regions[s]>>, <<"print", Regions[s]>> >>
                ELSE << <<"print", Regions[s]>> >>,
     next |-> s + 1]

ExceptHTTPErrorSkipping(s, status) ==
    [events |-> << <<"print", Regions[s]>> >>, next |-> s + 2]

ExceptHTTPErrorRetryingForever(s, status) ==
    [events |-> << <<"print", Regions[s]>> >>,
     next |-> IF status = 429 THEN s ELSE s + 1]

ExceptHTTPErrorAborting(s, status) ==
    [events |-> << <<"print", Regions[s]>> >>, next |-> NumShards + 1]

ExceptHTTPError(s, status) ==
    [events |-> << <<"print", Regions[s]>> >>, next |-> s + 1]

-----------------------------------------------------------------------------
(* fetch_recent_notables_sharded *)

FetchIdle ==
    /\ shard = 1
    /\ out = <<>>
    /\ seen = {}
    /\ log = <<>>
    /\ responses = <<>>

CapIdle ==
    /\ records = <<>>
    /\ per_species_max = 0
    /\ national_max = 0
    /\ capped = <<>>
    /\ cappedArchive = <<>>

\* a file that does not exist
Absent == [kind |-> "absent", codes |-> {}]

Paths ==
    {"out_dir/aba4.json", "out_dir/aba5.json", "out_dir/aba_allowed.json",
     "out_dir/unresolved_names.csv", "out_dir/index.html", "out_dir/summary.json",
     "docs/mega/aba4.json", "docs/mega/aba5.json", "aba4.json", "aba5.json"}

MainIdle ==
    /\ files = [p \in Paths |-> Absent]
    /\ written = <<>>
    /\ exit_code = -1
    /\ mode = ""
    /\ target_codes = {}
    /\ allowed_set = {}
    /\ code4_set = {}
    /\ code5_set = {}
    /\ raw = <<>>
    /\ picked = <<>>
    /\ points = <<>>
    /\ markers = <<>>
    /\ fatal = ""
    /\ pickedArchive = <<>>

NamesIdle ==
    /\ name = None
    /\ normalized = None
    /\ renormalized = None
    /\ variants = <<>>

LoadIdle ==
    /\ tax_header = <<>>
    /\ tax_rows = <<>>
    /\ aba_lines = <<>>
    /\ name_cand = None
    /\ spc_col = None
    /\ name_to_code = <<>>
    /\ header_idx = 0
    /\ code_col = None
    /\ name_col = None
    /\ row = 0
    /\ per_code_map = <<>>
    /\ unresolved = <<>>
    /\ row_variants = <<>>
    /\ unresolved_csv = NotWritten

ClassifierIdle ==
    /\ NamesIdle
    /\ LoadIdle

FetchInit ==
    /\ pc = "fetch"
    /\ FetchIdle
    /\ CapIdle
    /\ MainIdle
    /\ ClassifierIdle

\* one iteration of the loop: the region answers 200 with `data`
FetchShardOK ==
    /\ pc = "fetch"
    /\ shard <= NumShards
    /\ \E data \in FetchData :
          LET acc == Accumulate(out, seen, data)
          IN /\ out' = acc[1]
             /\ seen' = acc[2]
             /\ responses' = Append(responses, [status |-> 200, data |-> data])
    /\ log' = log \o << <<"get", Regions[shard]>>, <<"sleep", Regions[shard]>> >>
    /\ shard' = shard + 1
    /\ UNCHANGED <<pc, capVars, mainVars, classifierVars>>

\* one iteration of the loop: raise_for_status() raises requests.HTTPError
FetchShardHTTPError ==
    /\ pc = "fetch"
    /\ shard <= NumShards
    /\ \E status \in HTTPErrorStatuses :
          LET h == ExceptHTTPError(shard, status)
          IN /\ responses' = Append(responses, [status |-> status, data |-> <<>>])
             /\ log' = log \o << <<"get", Regions[shard]>> >> \o h.events
             /\ shard' = h.next
    /\ UNCHANGED <<pc, out, seen, capVars, mainVars, classifierVars>>

\* the loop is exhausted: return out
FetchReturn ==
    /\ pc = "fetch"
    /\ shard > NumShards
    /\ pc' = "fetch_done"
    /\ UNCHANGED <<fetchVars, capVars, classifierVars, mainVars>>

FetchNext == FetchShardOK \/ FetchShardHTTPError \/ FetchReturn

SpecFetch == FetchInit /\ [][FetchNext]_vars

-----------------------------------------------------------------------------
(* Properties of the fetch *)

RECURSIVE Flatten(_)
Flatten(rs) == IF rs = <<>> THEN <<>> ELSE Head(rs).data \o Flatten(Tail(rs))

\* the records of the successful responses, in region order and, within a
\* region, response order
Stream == Flatten(responses)

\* DedupKey with the species code as pick_recent_fields canonicalises it
CanonicalKey(rec) == <<rec.subId, pick_recent_fields(rec).speciesCode>>

\* DedupKey as the fetch stage computes it
StageKey(rec) == <<rec.subId, Lower(OrEmpty(rec.speciesCode))>>

\* position n is the first of the sequence of keys ks that carries ks[n]
IsFirst(ks, n) == \A m \in 1..(n - 1) : ks[m] # ks[n]

RECURSIVE CountEvents(_, _)
CountEvents(lg, ev) ==
    IF lg = <<>> THEN 0
    ELSE (IF Head(lg) = ev THEN 1 ELSE 0) + CountEvents(Tail(lg), ev)

Gets == SelectSeq(log, LAMBDA e : e[1] = "get")

\* C1: after fetch_recent_notables_sharded returns, no two records of the
\* returned collection share the DedupKey (submissionId, canonical
\* speciesCode), the species code being the stripped, lower-cased code that
\* pick_recent_fields assigns.
C1_NoSharedDedupKey ==
    pc = "fetch_done" =>
        \A m, n \in 1..Len(out) :
            CanonicalKey(out[m]) = CanonicalKey(out[n]) => m = n

\* C2: fetch-stage dedup is first-seen-wins: for every DedupKey occurring in a
\* successful response, the returned collection holds exactly one record with
\* that key and it is the first record carrying the key in region order and
\* response order, whatever the timestamps of the later ones; the first
\* record carrying a canonical key is retained as well.
C2_FirstSeenWins ==
    pc = "fetch_done" =>
        LET st == Stream
            ks == [n \in 1..Len(st) |-> StageKey(st[n])]
            cs == [n \in 1..Len(st) |-> CanonicalKey(st[n])]
            os == [m \in 1..Len(out) |-> StageKey(out[m])]
        IN \A n \in 1..Len(st) :
              /\ IsFirst(ks, n) =>
                    \E m \in 1..Len(out) :
                        /\ out[m] = st[n]
                        /\ \A m2 \in 1..Len(out) : os[m2] = ks[n] => m2 = m
              /\ IsFirst(cs, n) => \E m \in 1..Len(out) : out[m] = st[n]

\* a returned fetch in which a later record with a seen key carried a more
\* recent timestamp than the retained one
C2_Witness ==
    /\ pc = "fetch_done"
    /\ LET st == Stream
           ks == [n \in 1..Len(st) |-> StageKey(st[n])]
       IN \E f \in 1..Len(st) : \E n \in (f + 1)..Len(st) :
             /\ IsFirst(ks, f)
             /\ ks[n] = ks[f]
             /\ StrLess(st[f].obsDt, st[n].obsDt)
             /\ \E m \in 1..Len(out) : out[m] = st[f]

\* C3: HTTP errors of any subset of regions do not abort the fetch: every
\* region of the list is still requested, in list order, and the returned
\* collection holds the deduplicated records of every region that succeeded.
C3_ErrorsAreSkipped ==
    pc = "fetch_done" =>
        /\ Len(responses) = NumShards
        /\ [k \in 1..Len(Gets) |-> Gets[k][2]] = Regions
        /\ \A r \in 1..NumShards : \A k \in 1..Len(responses[r].data) :
              \E m \in 1..Len(out) : StageKey(out[m]) = StageKey(responses[r].data[k])
        /\ LET st == Stream
           IN \A m \in 1..Len(out) : \E n \in 1..Len(st) : out[m] = st[n]

\* a returned fetch in which a region failed and a later region delivered
\* records that are part of the result
C3_Witness ==
    /\ pc = "fetch_done"
    /\ \E r \in 1..NumShards : \E r2 \in (r + 1)..NumShards :
          /\ responses[r].status # 200
          /\ responses[r2].status = 200
          /\ responses[r2].data # <<>>
          /\ \E m \in 1..Len(out) : out[m] = responses[r2].data[1]

\* index in the log of the first request of region r
GetIndex(r) == CHOOSE k \in 1..Len(log) :
                  log[k] = <<"get", r>> /\ \A j \in 1..(k - 1) : log[j] # <<"get", r>>

C20_DelayBetweenRequests ==
    \A i \in 1..Len(log) : \A j \in (i + 1)..Len(log) :
        (/\ log[i][1] = "get"
         /\ log[j][1] = "get"
         /\ \A k \in (i + 1)..(j - 1) : log[k][1] # "get")
        => \E k \in (i + 1)..(j - 1) : log[k][1] = "sleep"

\* C21: the requests of one fetch are issued one after another in the order
\* of the region list: the k-th request of the log is for the k-th region,
\* every request is followed by the handling of its answer (the sleep after a
\* success, the print of the error) before the next request, one response is
\* recorded per request, and when the fetch returns every region has been
\* requested exactly once.
C21_SequentialInListOrder ==
    /\ Len(Gets) = shard - 1
    /\ \A k \in 1..Len(Gets) : Gets[k][2] = Regions[k]
    /\ Len(responses) = Len(Gets)
    /\ \A g \in 1..Len(log) : log[g][1] = "get" =>
          /\ g < Len(log)
          /\ log[g + 1][1] \in {"sleep", "print"}
          /\ log[g + 1][2] = log[g][2]
    /\ pc = "fetch_done" =>
          \A r \in 1..NumShards : CountEvents(log, <<"get", Regions[r]>>) = 1

\* a returned fetch whose first region succeeded and whose last region failed
C21_Witness ==
    /\ pc = "fetch_done"
    /\ responses[1].status = 200
    /\ responses[NumShards].status # 200
    /\ Len(Gets) = NumShards

\* the loop of fetch_recent_notables_sharded is a sequential for-loop whose
\* body blocks on one request with a timeout: an iteration that can run does
\* run
SpecFetchLive == SpecFetch /\ WF_vars(FetchNext)

\* C27: the fetch terminates whatever the regions answer: it never issues
\* more requests than there are regions, and it eventually returns.
C27_FetchTerminates ==
    /\ [](Len(Gets) <= NumShards)
    /\ <>(pc = "fetch_done")

\* a returned fetch in which every region answered 429
C27_Witness ==
    /\ pc = "fetch_done"
    /\ \A r \in 1..NumShards : responses[r].status = 429
    /\ Len(Gets) = NumShards

-----------------------------------------------------------------------------
(* Capping: cap_records of build_mega_map.py and build_mega_map_archive.py *)

\* longest list handed to cap_records
MaxRecords == 3

\* largest value of MEGA_PER_SPECIES_MAX and MEGA_NATIONAL_MAX
MaxCap == 2

\* getenv_int accepts any integer, negative ones included
CapValues == (-1)..MaxCap

\* observations handed to cap_records: a@10, a@20 (two checklists), b@15,
\* b without obsDt, a with the obsDt "x", and a record without speciesCode
CapRecords ==
    {Rec(S1, <<Cha>>, <<Ch1, Ch0>>, 0, 0),
     Rec(S1, <<Cha>>, <<Ch2, Ch0>>, 0, 0),
     Rec(S2, <<Cha>>, <<Ch2, Ch0>>, 0, 0),
     Rec(S1, <<Chb>>, <<Ch1, Ch5>>, 0, 0),
     Rec(S1, <<Chb>>, None, 0, 0),
     Rec(S1, <<Cha>>, <<Chx>>, 0, 0),
     Rec(S1, None, <<Ch2, Ch0>>, 0, 0)}

Min(a, b) == IF a < b THEN a ELSE b
Max(a, b) == IF a > b THEN a ELSE b

\* the slice s[:n]
SliceTo(s, n) ==
    IF n >= 0 THEN SubSeq(s, 1, Min(n, Len(s)))
    ELSE SubSeq(s, 1, Max(0, Len(s) + n))

\* obs_dt_key
obs_dt_key(r) == OrEmpty(r.obsDt)

\* sorted(recs, key=obs_dt_key, reverse=True): stable, descending
RECURSIVE InsertDesc(_, _)
InsertDesc(sorted, r) ==
    IF sorted = <<>> THEN <<r>>
    ELSE IF StrLess(obs_dt_key(Head(sorted)), obs_dt_key(r))
         THEN <<r>> \o sorted
         ELSE <<Head(sorted)>> \o InsertDesc(Tail(sorted), r)

RECURSIVE SortedDescFrom(_, _)
SortedDescFrom(sorted, recs) ==
    IF recs = <<>> THEN sorted
    ELSE SortedDescFrom(InsertDesc(sorted, Head(recs)), Tail(recs))

SortedDesc(recs) == SortedDescFrom(<<>>, recs)

\* the keys of by_species, in insertion order
RECURSIVE SpeciesKeys(_, _)
SpeciesKeys(recs, keys) ==
    IF recs = <<>> THEN keys
    ELSE LET sc == Head(recs).speciesCode
         IN IF Truthy(sc) /\ \A k \in 1..Len(keys) : keys[k] # sc
            THEN SpeciesKeys(Tail(recs), Append(keys, sc))
            ELSE SpeciesKeys(Tail(recs), keys)

\* by_species[sc]
BySpecies(recs, sc) == SelectSeq(recs, LAMBDA r : r.speciesCode = sc)

\* a per-species step that keeps one record too many
RECURSIVE PerSpeciesTrimOneMore(_, _, _)
PerSpeciesTrimOneMore(recs, keys, p) ==
    IF keys = <<>> THEN <<>>
    ELSE LET recs_sorted == SortedDesc(BySpecies(recs, Head(keys)))
         IN (IF p <= 0 THEN recs_sorted ELSE SliceTo(recs_sorted, p + 1))
            \o PerSpeciesTrimOneMore(recs, Tail(keys), p)

\* the loop over by_species.items() of build_mega_map.py: the list `trimmed`
RECURSIVE PerSpeciesTrim(_, _, _)
PerSpeciesTrim(recs, keys, p) ==
    IF keys = <<>> THEN <<>>
    ELSE LET recs_sorted == SortedDesc(BySpecies(recs, Head(keys)))
         IN (IF p <= 0 THEN recs_sorted ELSE SliceTo(recs_sorted, p))
            \o PerSpeciesTrim(recs, Tail(keys), p)

\* a global step that keeps one record too many
GlobalTrimOneMore(trimmed, g) ==
    IF g > 0 /\ Len(trimmed) > g
    THEN SliceTo(SortedDesc(trimmed), g + 1)
    ELSE trimmed

\* a global step that truncates without sorting again
GlobalTrimUnsorted(trimmed, g) ==
    IF g > 0 /\ Len(trimmed) > g
    THEN SliceTo(trimmed, g)
    ELSE trimmed

\* the global step of build_mega_map.py
GlobalTrim(trimmed, g) ==
    IF g > 0 /\ Len(trimmed) > g
    THEN SliceTo(SortedDesc(trimmed), g)
    ELSE trimmed

\* cap_records of build_mega_map.py
cap_records(recs, p, g) ==
    GlobalTrim(PerSpeciesTrim(recs, SpeciesKeys(recs, <<>>), p), g)

\* the loop over by_species.items() of build_mega_map_archive.py
RECURSIVE ArchivePerSpeciesTrim(_, _, _)
ArchivePerSpeciesTrim(recs, keys, p) ==
    IF keys = <<>> THEN <<>>
    ELSE SliceTo(SortedDesc(BySpecies(recs, Head(keys))), p)
         \o ArchivePerSpeciesTrim(recs, Tail(keys), p)

\* the global step of build_mega_map_archive.py
ArchiveGlobalTrim(trimmed, g) ==
    IF Len(trimmed) > g
    THEN SliceTo(SortedDesc(trimmed), g)
    ELSE trimmed

\* cap_records of build_mega_map_archive.py
archive_cap_records(recs, p, g) ==
    ArchiveGlobalTrim(ArchivePerSpeciesTrim(recs, SpeciesKeys(recs, <<>>), p), g)

CapInit ==
    /\ pc = "cap"
    /\ FetchIdle
    /\ MainIdle
    /\ ClassifierIdle
    /\ records \in SeqsUpTo(CapRecords, MaxRecords)
    /\ per_species_max \in CapValues
    /\ national_max \in CapValues
    /\ capped = <<>>
    /\ cappedArchive = <<>>

\* the call of cap_records in main of build_mega_map.py
CapRecordsCall ==
    /\ pc = "cap"
    /\ capped' = cap_records(records, per_species_max, national_max)
    /\ pc' = "cap_archive"
    /\ UNCHANGED <<fetchVars, mainVars, classifierVars, records, per_species_max, national_max, cappedArchive>>

\* the call of cap_records in main of build_mega_map_archive.py
ArchiveCapRecordsCall ==
    /\ pc = "cap_archive"
    /\ cappedArchive' = archive_cap_records(records, per_species_max, national_max)
    /\ pc' = "cap_done"
    /\ UNCHANGED <<fetchVars, mainVars, classifierVars, records, per_species_max, national_max, capped>>

CapNext == CapRecordsCall \/ ArchiveCapRecordsCall

SpecCap == CapInit /\ [][CapNext]_vars

-----------------------------------------------------------------------------
(* Properties of the capping *)

\* number of records of s with species code sc
CountSpecies(s, sc) == Cardinality({k \in 1..Len(s) : s[k].speciesCode = sc})

\* the phase-1 result of build_mega_map.py for the current arguments
Phase1 == PerSpeciesTrim(records, SpeciesKeys(records, <<>>), per_species_max)

\* number of positions of s holding r
Occurrences(s, r) == Cardinality({k \in 1..Len(s) : s[k] = r})

\* a is the timestamp key of a record at least as recent as one with key b
AtLeastAsRecent(a, b) == ~StrLess(a, b)

\* C6: with a per-species cap P > 0 the output of cap_records (of either
\* script) holds at most P records of each speciesCode.
C6_PerSpeciesCap ==
    (pc = "cap_done" /\ per_species_max > 0) =>
        \A k \in 1..Len(records) :
            /\ CountSpecies(capped, records[k].speciesCode) <= per_species_max
            /\ CountSpecies(cappedArchive, records[k].speciesCode) <= per_species_max

\* an input with more than P records of one species, P > 0, some of which
\* are in the output
C6_Witness ==
    /\ pc = "cap_done"
    /\ per_species_max > 0
    /\ \E k \in 1..Len(records) :
          /\ CountSpecies(records, records[k].speciesCode) > per_species_max
          /\ CountSpecies(capped, records[k].speciesCode) = per_species_max
          /\ CountSpecies(cappedArchive, records[k].speciesCode) = per_species_max

\* C7 as stated: whatever P and G, G = 0 included, the output of cap_records
\* of build_mega_map.py holds at most G records.
C7_GlobalCapIncludingZero ==
    (pc = "cap_done" /\ national_max >= 0) => Len(capped) <= national_max

\* C7 (amended): for every P and every G > 0 the output holds at most G
\* records; with G = 0 (or less) the global cap is off and the output is the
\* whole phase-1 result.
C7_GlobalCapWhenPositive ==
    pc = "cap_done" =>
        /\ national_max > 0 => Len(capped) <= national_max
        /\ national_max <= 0 => capped = Phase1

\* a positive global cap smaller than the phase-1 result, which the output
\* meets exactly
C7_Witness ==
    /\ pc = "cap_done"
    /\ national_max > 0
    /\ Len(Phase1) > national_max
    /\ Len(capped) = national_max

\* the global trim in terms of the sort key: when the phase-1 result has more
\* than G records (G a cap, that is G > 0), the output is exactly G records
\* of the phase-1 result in descending order of obs_dt_key, and no record
\* left out has a greater key than a record kept.
GlobalTrimKeepsGreatestKeys ==
    (pc = "cap_done" /\ national_max > 0 /\ Len(Phase1) > national_max) =>
        LET p1 == Phase1
        IN /\ Len(capped) = national_max
           /\ \A k \in 1..Len(capped) : Occurrences(capped, capped[k]) <= Occurrences(p1, capped[k])
           /\ \A k \in 1..(Len(capped) - 1) :
                 AtLeastAsRecent(obs_dt_key(capped[k]), obs_dt_key(capped[k + 1]))
           /\ \A j \in 1..Len(p1) :
                 Occurrences(capped, p1[j]) < Occurrences(p1, p1[j]) =>
                     \A k \in 1..Len(capped) :
                         AtLeastAsRecent(obs_dt_key(capped[k]), obs_dt_key(p1[j]))

\* the scenario of the specification: P = 1, G = 1, inputs a@10, a@20, b@15;
\* phase 1 is {a@20, b@15} and the output is {a@20}
C8_Witness ==
    /\ pc = "cap_done"
    /\ per_species_max = 1
    /\ national_max = 1
    /\ records = << Rec(S1, <<Cha>>, <<Ch1, Ch0>>, 0, 0),
                    Rec(S1, <<Cha>>, <<Ch2, Ch0>>, 0, 0),
                    Rec(S1, <<Chb>>, <<Ch1, Ch5>>, 0, 0) >>
    /\ Phase1 = << Rec(S1, <<Cha>>, <<Ch2, Ch0>>, 0, 0),
                   Rec(S1, <<Chb>>, <<Ch1, Ch5>>, 0, 0) >>
    /\ capped = << Rec(S1, <<Cha>>, <<Ch2, Ch0>>, 0, 0) >>

\* the phase-1 result of build_mega_map_archive.py for the current arguments
ArchivePhase1 ==
    ArchivePerSpeciesTrim(records, SpeciesKeys(records, <<>>), per_species_max)

\* C22: with P = 0 the per-species step of cap_records, of either script,
\* removes no record that has a species code.
C22_ZeroPerSpeciesCapKeepsAll ==
    (pc = "cap_done" /\ per_species_max = 0) =>
        \A k \in 1..Len(records) : Truthy(records[k].speciesCode) =>
            /\ Occurrences(Phase1, records[k]) = Occurrences(records, records[k])
            /\ Occurrences(ArchivePhase1, records[k]) = Occurrences(records, records[k])

\* the characters of an observation timestamp "YYYY-MM-DD HH:MM"
TimestampChars == 48..57 \cup {45, 58, 32}

\* the record has an observation timestamp that can be parsed
HasTimestamp(r) ==
    /\ Truthy(r.obsDt)
    /\ \A k \in 1..Len(r.obsDt) : r.obsDt[k] \in TimestampChars

\* in the order "timestamp descending, missing or unparsable last" the
\* record a comes strictly before the record b
Before(a, b) ==
    /\ HasTimestamp(a)
    /\ HasTimestamp(b) => StrLess(b.obsDt, a.obsDt)

\* position of the first record of species sc in s
FirstOf(s, sc) ==
    CHOOSE k \in 1..Len(s) :
        s[k].speciesCode = sc /\ \A j \in 1..(k - 1) : s[j].speciesCode # sc

\* C23: for every P, every species code of the input occurs in the phase-1
\* result of build_mega_map.py, and no input record of the species comes
\* before the first one kept in the order "timestamp descending, missing or
\* unparsable last".
C23_Phase1KeepsEverySpecies ==
    pc = "cap_done" =>
        \A k \in 1..Len(records) : Truthy(records[k].speciesCode) =>
            LET sc == records[k].speciesCode
                p1 == Phase1
            IN /\ CountSpecies(p1, sc) >= 1
               /\ \A j \in 1..Len(records) : records[j].speciesCode = sc =>
                     ~Before(records[j], p1[FirstOf(p1, sc)])

\* C24: in the phase-1 result the records of a species, and in a globally
\* trimmed output all records, are in the order "timestamp descending,
\* missing or unparsable last"; a record with a timestamp is left out by a
\* cap only when every record kept in its place has a timestamp too.
C24_UnparsableTimestampsLast ==
    pc = "cap_done" =>
        LET p1 == Phase1
            trimmed == national_max > 0 /\ Len(p1) > national_max
        IN /\ \A i, j \in 1..Len(p1) :
                 (i < j /\ p1[i].speciesCode = p1[j].speciesCode) => ~Before(p1[j], p1[i])
           /\ \A k \in 1..Len(records) :
                 (/\ Truthy(records[k].speciesCode)
                  /\ HasTimestamp(records[k])
                  /\ Occurrences(p1, records[k]) < Occurrences(records, records[k]))
                 => \A j \in 1..Len(p1) :
                       p1[j].speciesCode = records[k].speciesCode => HasTimestamp(p1[j])
           /\ trimmed =>
                 /\ \A i, j \in 1..Len(capped) : i < j => ~Before(capped[j], capped[i])
                 /\ \A k \in 1..Len(p1) :
                       (HasTimestamp(p1[k]) /\ Occurrences(capped, p1[k]) < Occurrences(p1, p1[k]))
                       => \A j \in 1..Len(capped) : HasTimestamp(capped[j])

\* C8: when the phase-1 result has more than G records (G a cap, that is
\* G > 0), the output is exactly G records of the phase-1 result, and no
\* record left out comes before a record kept in the order "timestamp
\* descending, missing or unparsable last".
C8_GlobalTrimKeepsMostRecent ==
    (pc = "cap_done" /\ national_max > 0 /\ Len(Phase1) > national_max) =>
        LET p1 == Phase1
        IN /\ Len(capped) = national_max
           /\ \A k \in 1..Len(capped) : Occurrences(capped, capped[k]) <= Occurrences(p1, capped[k])
           /\ \A j \in 1..Len(p1) :
                 Occurrences(capped, p1[j]) < Occurrences(p1, p1[j]) =>
                     \A k \in 1..Len(capped) : ~Before(p1[j], capped[k])

\* C29: with P > 0 and G > 0 cap_records of build_mega_map.py and of
\* build_mega_map_archive.py return the same records in the same order.
C29_CapRecordsEquivalent ==
    (pc = "cap_done" /\ per_species_max > 0 /\ national_max > 0) =>
        capped = cappedArchive

\* both caps are positive and both bite: a species has more than P records
\* and the phase-1 result has more than G
C29_Witness ==
    /\ pc = "cap_done"
    /\ per_species_max > 0
    /\ national_max > 0
    /\ \E k \in 1..Len(records) :
          CountSpecies(records, records[k].speciesCode) > per_species_max
    /\ Len(Phase1) > national_max
    /\ Len(capped) = national_max
    /\ capped = cappedArchive

-----------------------------------------------------------------------------
(* main of build_mega_map.py *)

\* longest list of records the fetch hands to main
MaxRaw == 3

\* largest number of checklist rows of a requested tier
MaxRows == 2

\* HARD_FAIL_THRESHOLD, scaled down from 20000 to the size of the lists above
HARD_FAIL_THRESHOLD == 2

\* a missing lat or lng
NoneNum == -1000000000

\* tiers that --codes may request
TierChoices == SUBSET {4, 5}

\* values of MEGA_MODE
Modes == {"aba4_5_only", "union"}

\* values of MEGA_PER_SPECIES_MAX and MEGA_NATIONAL_MAX read by main
MainCapValues == {0, 1}

\* rows of the checklist whose rarity code matched, after the lookup of the
\* name: <<code_val, sc>>, sc = None when no variant of the name resolved
ChecklistRows == {<<4, <<Cha>>>>, <<5, <<Cha>>>>, <<5, <<Chb>>>>, <<5, None>>}

RowSets == {rs \in SUBSET ChecklistRows : Cardinality(rs) <= MaxRows}

\* a JSON file holding the list of the codes cs
JsonList(cs) == [kind |-> "json", codes |-> cs]

\* a file that exists and is not JSON
Corrupt == [kind |-> "corrupt", codes |-> {}]

\* a file whose content the model does not look into
Text == [kind |-> "text", codes |-> {}]

NoFiles == [p \in Paths |-> Absent]

\* what the file system may hold before the run: nothing; the tier files of
\* an earlier run in out_dir; an aba4.json of an earlier run in docs/mega; an
\* unreadable aba4.json in out_dir
PriorFiles ==
    {NoFiles,
     [NoFiles EXCEPT !["out_dir/aba4.json"] = JsonList({<<Chb>>}),
                     !["out_dir/aba5.json"] = JsonList({<<Cha>>}),
                     !["out_dir/index.html"] = Text,
                     !["out_dir/summary.json"] = Text],
     [NoFiles EXCEPT !["docs/mega/aba4.json"] = JsonList({<<ChA>>})],
     [NoFiles EXCEPT !["out_dir/aba4.json"] = Corrupt]}

\* records the remote source may deliver to main: a@10 at (0, 0),
\* b@20 at (0, 0), B@15 at (0.0000004, 0) on another checklist, and "b "@15
\* at (0, 0) on the checklist of b@20
MainRecords ==
    {Rec(S1, <<Cha>>, <<Ch1, Ch0>>, 0, 0),
     Rec(S1, <<Chb>>, <<Ch2, Ch0>>, 0, 0),
     Rec(S2, <<ChA + 1>>, <<Ch1, Ch5>>, 4, 0),
     Rec(S1, <<Chb, SP>>, <<Ch1, Ch5>>, 0, 0)}

\* what fetch_recent_notables_sharded can return: no two records with the
\* same fetch-stage key
FetchResults ==
    {rs \in SeqsUpTo(MainRecords, MaxRaw) :
        \A m, n \in 1..Len(rs) : FetchKey(rs[m]) = FetchKey(rs[n]) => m = n}

\* Path.write_text / open("w") / m.save
Write(fs, path, content) == [fs EXCEPT ![path] = content]

\* per_code_map[c]
PerCodeSet(rows, c) == {r[2] : r \in {x \in rows : x[1] = c /\ x[2] # None}}

\* the list `unresolved`
Unresolved(rows) == {r \in rows : r[2] = None}

\* the writes of load_allowed_species_codes, lines 189-204: <<files, written>>
ClassifierWrites(fs, tc, rows) ==
    LET allowed == UNION {PerCodeSet(rows, c) : c \in tc}
        f4 == IF 4 \in tc
              THEN Write(fs, "out_dir/aba4.json", JsonList(PerCodeSet(rows, 4))) ELSE fs
        f5 == IF 5 \in tc
              THEN Write(f4, "out_dir/aba5.json", JsonList(PerCodeSet(rows, 5))) ELSE f4
        fa == Write(f5, "out_dir/aba_allowed.json", JsonList(allowed))
        fu == IF Unresolved(rows) # {}
              THEN Write(fa, "out_dir/unresolved_names.csv", Text) ELSE fa
    IN <<fu,
         (IF 4 \in tc THEN <<"out_dir/aba4.json">> ELSE <<>>)
         \o (IF 5 \in tc THEN <<"out_dir/aba5.json">> ELSE <<>>)
         \o <<"out_dir/aba_allowed.json">>
         \o (IF 5 \in tc THEN <<"out_dir/aba5.json">> ELSE <<>>)
         \o (IF Unresolved(rows) # {} THEN <<"out_dir/unresolved_names.csv">> ELSE <<>>)>>

\* _load_json_list
load_json_list(f) == IF f.kind = "json" THEN f.codes ELSE {}

\* load_code_sets for one tier: the first candidate that exists is loaded
LoadFirst(fs, cands) ==
    IF cands = <<>> THEN {}
    ELSE LET found == SelectSeq(cands, LAMBDA c : fs[c].kind # "absent")
         IN IF found = <<>> THEN {}
            ELSE {Lower(x) : x \in load_json_list(fs[found[1]])}

load_code_sets(fs) ==
    <<LoadFirst(fs, <<"out_dir/aba4.json", "docs/mega/aba4.json", "aba4.json">>),
      LoadFirst(fs, <<"out_dir/aba5.json", "docs/mega/aba5.json", "aba5.json">>)>>

\* round(x, 6), x in units of 1e-7 degrees
Round6(x) ==
    LET q == x \div 10
        r == x % 10
    IN IF r < 5 THEN q * 10
       ELSE IF r > 5 THEN (q + 1) * 10
       ELSE IF q % 2 = 0 THEN q * 10 ELSE (q + 1) * 10

\* the grouping key of build_map_html
GroupKey(r) == <<Round6(r.lat), Round6(r.lng), Lower(OrEmpty(r.speciesCode))>>

\* records that build_map_html groups
Groupable(r) ==
    r.lat # NoneNum /\ r.lng # NoneNum /\ Lower(OrEmpty(r.speciesCode)) # <<>>

\* the keys of agg, in insertion order
RECURSIVE AggKeys(_, _)
AggKeys(pts, keys) ==
    IF pts = <<>> THEN keys
    ELSE IF Groupable(Head(pts)) /\ \A k \in 1..Len(keys) : keys[k] # GroupKey(Head(pts))
         THEN AggKeys(Tail(pts), Append(keys, GroupKey(Head(pts))))
         ELSE AggKeys(Tail(pts), keys)

\* meta_for_key[key]["code"]; 0 stands for None
TierOf(sc, c4, c5) == IF sc \in c4 THEN 4 ELSE IF sc \in c5 THEN 5 ELSE 0

RECURSIVE ChecklistsNoDedupe(_, _, _)
ChecklistsNoDedupe(recs_sorted, seen_ids, items) ==
    IF recs_sorted = <<>> THEN items
    ELSE LET cid == Head(recs_sorted).subId
         IN IF ~Truthy(cid)
            THEN ChecklistsNoDedupe(Tail(recs_sorted), seen_ids, items)
            ELSE ChecklistsNoDedupe(Tail(recs_sorted), seen_ids \cup {cid},
                                    Append(items, [subId |-> cid,
                                                   obsDt |-> OrEmpty(Head(recs_sorted).obsDt)]))

\* the checklist items of one marker: newest first, one per subId
RECURSIVE Checklists(_, _, _)
Checklists(recs_sorted, seen_ids, items) ==
    IF recs_sorted = <<>> THEN items
    ELSE LET cid == Head(recs_sorted).subId
         IN IF ~Truthy(cid) \/ cid \in seen_ids
            THEN Checklists(Tail(recs_sorted), seen_ids, items)
            ELSE Checklists(Tail(recs_sorted), seen_ids \cup {cid},
                            Append(items, [subId |-> cid,
                                           obsDt |-> OrEmpty(Head(recs_sorted).obsDt)]))

\* the markers build_map_html adds to the cluster, in order
RECURSIVE Markers(_, _, _, _)
Markers(pts, keys, c4, c5) ==
    IF keys = <<>> THEN <<>>
    ELSE LET key == Head(keys)
             recs == SelectSeq(pts, LAMBDA r : Groupable(r) /\ GroupKey(r) = key)
             code == TierOf(key[3], c4, c5)
         IN (IF code \notin {4, 5} THEN <<>>
             ELSE << [lat |-> key[1], lng |-> key[2], speciesCode |-> key[3],
                      code |-> code,
                      items |-> Checklists(SortedDesc(recs), {}, <<>>)] >>)
            \o Markers(pts, Tail(keys), c4, c5)

build_map_html(pts, c4, c5) == Markers(pts, AggKeys(pts, <<>>), c4, c5)

MainInit ==
    /\ pc = "main"
    /\ FetchIdle
    /\ CapIdle
    /\ ClassifierIdle
    /\ files \in PriorFiles
    /\ written = <<>>
    /\ exit_code = -1
    /\ mode = ""
    /\ target_codes = {}
    /\ allowed_set = {}
    /\ code4_set = {}
    /\ code5_set = {}
    /\ raw = <<>>
    /\ picked = <<>>
    /\ points = <<>>
    /\ markers = <<>>
    /\ fatal = ""
    /\ pickedArchive = <<>>

\* sys.exit(code)
Exit(code) ==
    /\ pc' = "exit"
    /\ exit_code' = code

\* the argument of each sys.exit call of main and of the functions it calls
FatalStatus(reason) ==
    CASE reason = "bad_codes" -> 2            \* line 478
      [] reason = "missing_credential" -> 2   \* line 51
      [] reason = "missing_input" -> 3        \* line 108
      [] reason = "taxonomy_columns" -> 3     \* line 127
      [] reason = "header_row" -> 3           \* line 157
      [] reason = "aba_columns" -> 3          \* line 164
      [] reason = "empty_tier" -> 6           \* line 492
      [] reason = "hard_ceiling" -> 5         \* line 509
      [] reason = "injection_pattern" -> 4    \* line 531
      [] reason = "exception" -> 1            \* line 542

\* the run ends at the sys.exit call `reason`
Fatal(reason) ==
    /\ Exit(FatalStatus(reason))
    /\ fatal' = reason

\* the conditions under which load_allowed_species_codes exits
ClassifierFatal == {"missing_input", "taxonomy_columns", "header_row", "aba_columns"}

\* lines 458-478: arguments and environment are read
MainParseArgs ==
    /\ pc = "main"
    /\ mode' \in Modes
    /\ per_species_max' \in MainCapValues
    /\ national_max' \in MainCapValues
    /\ target_codes' \in TierChoices
    /\ pc' = "load_allowed"
    /\ UNCHANGED <<fetchVars, classifierVars, records, capped, cappedArchive, files, written,
                   exit_code, allowed_set, code4_set, code5_set, raw, picked,
                   points, markers,
                   fatal, pickedArchive>>

\* lines 474-478: --codes is not a list of integers
MainBadCodes ==
    /\ pc = "main"
    /\ Fatal("bad_codes")
    /\ UNCHANGED <<fetchVars, capVars, classifierVars, files, written, mode, target_codes,
                   allowed_set, code4_set, code5_set, raw, picked, points, markers,
                   pickedArchive>>

\* load_allowed_species_codes, lines 106-164: an input file is missing, or
\* the taxonomy columns, the checklist header row or the checklist columns
\* are not found
MainLoadAllowedFatal ==
    /\ pc = "load_allowed"
    /\ \E reason \in ClassifierFatal : Fatal(reason)
    /\ UNCHANGED <<fetchVars, capVars, classifierVars, files, written, mode, target_codes,
                   allowed_set, code4_set, code5_set, raw, picked, points, markers,
                   pickedArchive>>

\* load_allowed_species_codes, lines 166-205, and line 483
MainLoadAllowed ==
    /\ pc = "load_allowed"
    /\ \E rows \in RowSets :
          LET w == ClassifierWrites(files, target_codes, rows)
          IN /\ files' = w[1]
             /\ written' = written \o w[2]
             /\ allowed_set' =
                   {Lower(x) : x \in UNION {PerCodeSet(rows, c) : c \in target_codes}}
    /\ pc' = "load_code_sets"
    /\ UNCHANGED <<fetchVars, capVars, classifierVars, exit_code, mode, target_codes,
                   code4_set, code5_set, raw, picked, points, markers,
                   fatal, pickedArchive>>

\* lines 486-492
MainLoadCodeSets ==
    /\ pc = "load_code_sets"
    /\ LET cs == load_code_sets(files)
       IN /\ code4_set' = cs[1]
          /\ code5_set' = cs[2]
          /\ IF (cs[1] = {} /\ 4 \in target_codes) \/ (cs[2] = {} /\ 5 \in target_codes)
             THEN Fatal("empty_tier")
             ELSE pc' = "fetch" /\ exit_code' = exit_code /\ fatal' = fatal
    /\ UNCHANGED <<fetchVars, capVars, classifierVars, files, written, mode, target_codes,
                   allowed_set, raw, picked, points, markers,
                   pickedArchive>>

\* line 494, ebird_headers lines 47-51: EBIRD_API_KEY is missing when the
\* first region is requested
MainFetchNoKey ==
    /\ pc = "fetch"
    /\ Fatal("missing_credential")
    /\ UNCHANGED <<fetchVars, capVars, classifierVars, files, written, mode, target_codes,
                   allowed_set, code4_set, code5_set, raw, picked, points, markers,
                   pickedArchive>>

\* line 494, lines 540-542: requests.get raises an exception that is not an
\* HTTPError (connection error, timeout)
MainFetchRaises ==
    /\ pc = "fetch"
    /\ Fatal("exception")
    /\ UNCHANGED <<fetchVars, capVars, classifierVars, files, written, mode, target_codes,
                   allowed_set, code4_set, code5_set, raw, picked, points, markers,
                   pickedArchive>>

\* lines 494-495
MainFetch ==
    /\ pc = "fetch"
    /\ \E rs \in FetchResults :
          /\ raw' = rs
          /\ picked' = [k \in 1..Len(rs) |-> pick_recent_fields(rs[k])]
          /\ pickedArchive' = [k \in 1..Len(rs) |-> pick_recent_fields(rs[k])]
    /\ pc' = "filter"
    /\ UNCHANGED <<fetchVars, capVars, classifierVars, files, written, exit_code, mode,
                   target_codes, allowed_set, code4_set, code5_set, points, markers,
                   fatal>>

\* the mode filter left out
ModeFilterOff(pk, md, allowed) == pk

\* the mode filter applied in every mode
ModeFilterAlways(pk, md, allowed) ==
    SelectSeq(pk, LAMBDA r : Lower(OrEmpty(r.speciesCode)) \in allowed)

\* lines 497-499: the filter to the allowed species, skipped in union mode
ModeFilter(pk, md, allowed) ==
    IF md # "union"
    THEN SelectSeq(pk, LAMBDA r : Lower(OrEmpty(r.speciesCode)) \in allowed)
    ELSE pk

\* lines 501-503: the hard filter to the loaded tier-4 and tier-5 sets
HardFilter(pk, c4, c5) ==
    SelectSeq(pk, LAMBDA r : Lower(OrEmpty(r.speciesCode)) \in (c4 \cup c5))

\* build_mega_map_archive.py, lines 367-369: its only filter
ArchiveModeFilter(pk, md, allowed) ==
    IF md # "union"
    THEN SelectSeq(pk, LAMBDA r : r.speciesCode \in allowed)
    ELSE pk

\* lines 497-503, and lines 367-369 of build_mega_map_archive.py
MainFilter ==
    /\ pc = "filter"
    /\ picked' = HardFilter(ModeFilter(picked, mode, allowed_set), code4_set, code5_set)
    /\ pickedArchive' = ArchiveModeFilter(pickedArchive, mode, allowed_set)
    /\ pc' = "cap"
    /\ UNCHANGED <<fetchVars, capVars, classifierVars, files, written, exit_code, mode,
                   target_codes, allowed_set, code4_set, code5_set, raw, points, markers,
                   fatal>>

\* the ceiling compared one record too high
ExceedsCeilingOneMore(n) == 0 < HARD_FAIL_THRESHOLD /\ HARD_FAIL_THRESHOLD + 1 < n

\* line 507: `0 < HARD_FAIL_THRESHOLD < len(points)`
ExceedsCeiling(n) == 0 < HARD_FAIL_THRESHOLD /\ HARD_FAIL_THRESHOLD < n

\* lines 505-509
MainCap ==
    /\ pc = "cap"
    /\ LET pts == cap_records(picked, per_species_max, national_max)
       IN /\ points' = pts
          /\ IF ExceedsCeiling(Len(pts))
             THEN Fatal("hard_ceiling")
             ELSE pc' = "build_map" /\ exit_code' = exit_code /\ fatal' = fatal
    /\ UNCHANGED <<fetchVars, capVars, classifierVars, files, written, mode, target_codes,
                   allowed_set, code4_set, code5_set, raw, picked, markers, pickedArchive>>

\* line 511: build_map_html, which saves index.html
MainBuildMap ==
    /\ pc = "build_map"
    /\ markers' = build_map_html(points, code4_set, code5_set)
    /\ files' = Write(files, "out_dir/index.html", Text)
    /\ written' = Append(written, "out_dir/index.html")
    /\ pc' = "summary"
    /\ UNCHANGED <<fetchVars, capVars, classifierVars, exit_code, mode, target_codes,
                   allowed_set, code4_set, code5_set, raw, picked, points, fatal, pickedArchive>>

\* lines 513-526
MainSummary ==
    /\ pc = "summary"
    /\ files' = Write(files, "out_dir/summary.json", Text)
    /\ written' = Append(written, "out_dir/summary.json")
    /\ pc' = "check_html"
    /\ UNCHANGED <<fetchVars, capVars, classifierVars, exit_code, mode, target_codes,
                   allowed_set, code4_set, code5_set, raw, picked, points, markers,
                   fatal, pickedArchive>>

\* lines 528-533: the rendered page is searched for the pattern '.{'
MainCheckHtml ==
    /\ pc = "check_html"
    /\ \E found \in BOOLEAN :
          IF found THEN Fatal("injection_pattern") ELSE Exit(0) /\ fatal' = fatal
    /\ UNCHANGED <<fetchVars, capVars, classifierVars, files, written, mode, target_codes,
                   allowed_set, code4_set, code5_set, raw, picked, points, markers,
                   pickedArchive>>

MainNext ==
    \/ MainParseArgs
    \/ MainBadCodes
    \/ MainLoadAllowedFatal
    \/ MainLoadAllowed
    \/ MainLoadCodeSets
    \/ MainFetchNoKey
    \/ MainFetchRaises
    \/ MainFetch
    \/ MainFilter
    \/ MainCap
    \/ MainBuildMap
    \/ MainSummary
    \/ MainCheckHtml

SpecMain == MainInit /\ [][MainNext]_vars

-----------------------------------------------------------------------------
(* Properties of main *)

\* C5: a run of main that ends in a fatal exit has written no file: the tier
\* files, aba_allowed.json, unresolved_names.csv, index.html and summary.json
\* are written only after every validation has succeeded.
C5_FatalExitWritesNothing ==
    (pc = "exit" /\ exit_code # 0) => written = <<>>

\* C9: whatever the requested tiers, the mode and the prior content of the
\* output directory, every marker build_map_html renders carries a rarity
\* tier that was requested with --codes.
C9_MarkerTierIsRequested ==
    \A k \in 1..Len(markers) : markers[k].code \in target_codes

\* C10: a group whose species is in none of the requested tier sets produces
\* no marker: the species of every rendered marker is classified into a
\* requested tier.
C10_UnclassifiedSpeciesDropped ==
    \A k \in 1..Len(markers) : markers[k].speciesCode \in allowed_set


\* the records main has fetched, as pick_recent_fields returns them
PickedAll == [k \in 1..Len(raw) |-> pick_recent_fields(raw[k])]

\* C11: once capping has produced more records than HARD_FAIL_THRESHOLD the
\* run is over with status 5, whatever national_max is, and such a run has
\* saved neither the map page nor the summary; a map page saved by the run
\* shows at most HARD_FAIL_THRESHOLD records.
C11_HardCeilingAborts ==
    /\ Len(points) > HARD_FAIL_THRESHOLD =>
          /\ pc = "exit"
          /\ exit_code = 5
          /\ \A k \in 1..Len(written) :
                written[k] \notin {"out_dir/index.html", "out_dir/summary.json"}
    /\ (\E k \in 1..Len(written) : written[k] = "out_dir/index.html") =>
          Len(points) <= HARD_FAIL_THRESHOLD

C11_Witness ==
    /\ pc = "exit"
    /\ exit_code = 5
    /\ fatal = "hard_ceiling"
    /\ national_max = 0
    /\ Len(points) = HARD_FAIL_THRESHOLD + 1

\* C16: when the mode is not "union", every record handed to cap_records has
\* a species code that is a member of the allowed species set, in both
\* scripts.
C16_NonUnionKeepsAllowedOnly ==
    (pc = "cap" /\ mode # "union") =>
        /\ \A k \in 1..Len(picked) : picked[k].speciesCode \in allowed_set
        /\ \A k \in 1..Len(pickedArchive) : pickedArchive[k].speciesCode \in allowed_set

C16_Witness ==
    /\ pc = "cap"
    /\ mode # "union"
    /\ Len(picked) > 0
    /\ Len(picked) < Len(raw)
    /\ \E k \in 1..Len(raw) :
          /\ PickedAll[k].speciesCode \notin allowed_set
          /\ PickedAll[k].speciesCode \in code4_set \cup code5_set

C18Conditions == {"missing_credential", "missing_input", "header_row"}

\* C18: a run that ends on a missing credential, a missing input file or a
\* checklist without a header row has written no output, and its exit
\* status is not the status of another of these three conditions.
C18_DistinctStatusNoOutput ==
    (pc = "exit" /\ fatal \in C18Conditions) =>
        /\ exit_code # 0
        /\ written = <<>>
        /\ \A other \in C18Conditions \ {fatal} : exit_code # FatalStatus(other)


\* C25: in every marker of build_map_html the checklist items carry pairwise
\* different submission ids and are ordered by observation timestamp, newest
\* first; and no two markers have the same (rounded lat, rounded lng,
\* speciesCode) key.
C25_MarkerItemsUniqueNewestFirst ==
    /\ \A m \in 1..Len(markers) :
          LET it == markers[m].items
          IN /\ \A i, j \in 1..Len(it) : it[i].subId = it[j].subId => i = j
             /\ \A i, j \in 1..Len(it) : i < j => ~StrLess(it[i].obsDt, it[j].obsDt)
    /\ \A m, n \in 1..Len(markers) :
          (/\ markers[m].lat = markers[n].lat
           /\ markers[m].lng = markers[n].lng
           /\ markers[m].speciesCode = markers[n].speciesCode) => m = n

\* a map was built from two points of one group that are on the same
\* checklist with different timestamps, and the marker shows the checklist
\* once, with the newer timestamp
C25_Witness ==
    /\ pc = "summary"
    /\ Len(points) = 2
    /\ GroupKey(points[1]) = GroupKey(points[2])
    /\ points[1].subId = points[2].subId
    /\ \E n \in 1..2 :
          /\ StrLess(points[3 - n].obsDt, points[n].obsDt)
          /\ Len(markers) = 1
          /\ markers[1].items = << [subId |-> points[n].subId, obsDt |-> points[n].obsDt] >>

-----------------------------------------------------------------------------
(* Name normalisation: normalize_name and expand_variants *)

\* longest name handed to normalize_name and expand_variants
MaxNameLen == 3

\* code points of the names
ChS == 83
Chs == 115
Che == 101
ChHyphen == 45
ChSlash == 47
ChComma == 44
ChApos == 39
ChLParen == 40
ChRParen == 41
ChUnderscore == 95
ChEAcute == 233
ChCombAcute == 769

\* the characters names are made of
NameChars == {Cha, ChS, Chs, SP, ChHyphen, ChApos, ChLParen, ChRParen, ChEAcute}

\* the arguments: None, the empty string and every string over NameChars
Names == {None} \cup SeqsUpTo(NameChars, MaxNameLen)

\* unicodedata.normalize("NFKD", c) of one code point of NameChars: only the
\* accented letter decomposes, into the letter and a combining accent
Decompose(c) == IF c = ChEAcute THEN <<Che, ChCombAcute>> ELSE <<c>>

\* unicodedata.normalize("NFKD", s)
RECURSIVE NFKD(_)
NFKD(s) == IF s = <<>> THEN <<>> ELSE Decompose(Head(s)) \o NFKD(Tail(s))

\* position of the first `c` of s at or after position k, 0 if there is none
RECURSIVE FindFrom(_, _, _)
FindFrom(s, c, k) ==
    IF k > Len(s) THEN 0
    ELSE IF s[k] = c THEN k
    ELSE FindFrom(s, c, k + 1)

\* re.sub(r"\([^)]*\)", "", s): the leftmost "(" that has a ")" after it is
\* removed together with everything up to the first such ")"
RECURSIVE SubParens(_)
SubParens(s) ==
    IF s = <<>> THEN <<>>
    ELSE LET close == IF Head(s) = ChLParen THEN FindFrom(s, ChRParen, 2) ELSE 0
         IN IF close > 0
            THEN SubParens(SubSeq(s, close + 1, Len(s)))
            ELSE <<Head(s)>> \o SubParens(Tail(s))

\* the class [^a-z0-9 ] of PUNCT_RE
IsPunct(c) == ~(c \in 97..122 \/ c \in 48..57 \/ c = SP)

RECURSIVE DropPunct(_)
DropPunct(s) == IF s # <<>> /\ IsPunct(Head(s)) THEN DropPunct(Tail(s)) ELSE s

\* PUNCT_RE.sub(" ", s): each run of the class becomes one space
RECURSIVE SubPunct(_)
SubPunct(s) ==
    IF s = <<>> THEN <<>>
    ELSE IF IsPunct(Head(s)) THEN <<SP>> \o SubPunct(DropPunct(Tail(s)))
    ELSE <<Head(s)>> \o SubPunct(Tail(s))

RECURSIVE DropSpaces(_)
DropSpaces(s) == IF s # <<>> /\ IsSpace(Head(s)) THEN DropSpaces(Tail(s)) ELSE s

\* SPACES_RE.sub(" ", s): each run of white space becomes one space
RECURSIVE SubSpaces(_)
SubSpaces(s) ==
    IF s = <<>> THEN <<>>
    ELSE IF IsSpace(Head(s)) THEN <<SP>> \o SubSpaces(DropSpaces(Tail(s)))
    ELSE <<Head(s)>> \o SubSpaces(Tail(s))

\* normalize_name without its last strip()
normalize_nameNoLastStrip(s) ==
    IF ~Truthy(s) THEN <<>>
    ELSE SubSpaces(SubPunct(SubParens(Lower(Strip(NFKD(s))))))

\* normalize_name, lines 59-66
normalize_name(s) ==
    IF ~Truthy(s) THEN <<>>
    ELSE Strip(SubSpaces(SubPunct(SubParens(Lower(Strip(NFKD(s)))))))

\* str.replace(old, new) for one-character strings
Replace(s, old, new) == [k \in 1..Len(s) |-> IF s[k] = old THEN new ELSE s[k]]

\* \w of a str pattern, for the code points of NameChars: ASCII letters,
\* digits, the underscore and the accented letter
IsWord(c) ==
    \/ c \in 97..122
    \/ c \in 65..90
    \/ c \in 48..57
    \/ c = ChUnderscore
    \/ c = ChEAcute

\* re.sub(r"'s\b", repl, s): an apostrophe and a lower-case s that are not
\* followed by a word character
RECURSIVE SubPossessive(_, _)
SubPossessive(s, repl) ==
    IF s = <<>> THEN <<>>
    ELSE IF /\ Len(s) >= 2
            /\ s[1] = ChApos
            /\ s[2] = Chs
            /\ (Len(s) = 2 \/ ~IsWord(s[3]))
         THEN repl \o SubPossessive(SubSeq(s, 3, Len(s)), repl)
         ELSE <<Head(s)>> \o SubPossessive(Tail(s), repl)

\* re.sub(r"[^\w\s]", " ", s)
SubNonWord(s) ==
    [k \in 1..Len(s) |-> IF ~IsWord(s[k]) /\ ~IsSpace(s[k]) THEN SP ELSE s[k]]

\* the set `variants` of expand_variants, lines 72-80
VariantSet(base) ==
    {normalize_name(base),
     normalize_name(Replace(base, ChHyphen, SP)),
     normalize_name(Replace(base, ChSlash, SP)),
     normalize_name(Replace(base, ChComma, SP)),
     normalize_name(SubPossessive(base, <<Chs>>)),
     normalize_name(SubPossessive(base, <<>>)),
     normalize_name(SubNonWord(base))}

\* the orders in which Python can iterate over the set S
Orders(S) ==
    {f \in [1..Cardinality(S) -> S] : \A x \in S : \E k \in 1..Cardinality(S) : f[k] = x}

\* an expand_variants that returns the variants in the order of the set
ExpandVariantsUnordered(nm) ==
    IF ~Truthy(nm) THEN {<<>>}
    ELSE {SelectSeq(o, LAMBDA x : x # <<>>) : o \in Orders(VariantSet(nm))}

\* expand_variants, lines 68-82: the lists it can return, one for each order
\* in which the set `variants` is iterated
expand_variants(nm) ==
    IF ~Truthy(nm) THEN {<<>>}
    ELSE LET n == normalize_name(nm)
         IN {SelectSeq(<<n>> \o o, LAMBDA x : x # <<>>) :
                o \in Orders(VariantSet(nm) \ {n})}

NamesInit ==
    /\ pc = "names"
    /\ FetchIdle
    /\ CapIdle
    /\ MainIdle
    /\ LoadIdle
    /\ name \in Names
    /\ normalized = None
    /\ renormalized = None
    /\ variants = <<>>

\* normalize_name(name)
NormalizeNameCall ==
    /\ pc = "names"
    /\ normalized' = normalize_name(name)
    /\ pc' = "normalized"
    /\ UNCHANGED <<fetchVars, capVars, mainVars, loadVars, name, renormalized, variants>>

\* normalize_name applied to its own result
NormalizeAgainCall ==
    /\ pc = "normalized"
    /\ renormalized' = normalize_name(normalized)
    /\ pc' = "renormalized"
    /\ UNCHANGED <<fetchVars, capVars, mainVars, loadVars, name, normalized, variants>>

\* expand_variants(name)
ExpandVariantsCall ==
    /\ pc = "renormalized"
    /\ variants' \in expand_variants(name)
    /\ pc' = "names_done"
    /\ UNCHANGED <<fetchVars, capVars, mainVars, loadVars, name, normalized, renormalized>>

NamesNext ==
    \/ NormalizeNameCall
    \/ NormalizeAgainCall
    \/ ExpandVariantsCall

SpecNames == NamesInit /\ [][NamesNext]_vars

\* C14: normalize_name applied to its own result returns that result.
C14_NormalizeIdempotent ==
    pc \in {"renormalized", "names_done"} => renormalized = normalized

\* a name with an upper-case letter and a hyphen, normalised twice
C14_Witness ==
    /\ pc = "renormalized"
    /\ name = <<ChS, ChHyphen, Cha>>
    /\ normalized = <<Chs, SP, Cha>>
    /\ renormalized = <<Chs, SP, Cha>>

\* C15 as stated: for every non-empty name the list expand_variants returns
\* starts with normalize_name(name).
C15_PrimaryFormAlwaysFirst ==
    (pc = "names_done" /\ Truthy(name)) =>
        /\ Len(variants) >= 1
        /\ variants[1] = normalized

\* C15 (amended): for every name whose normalised form is not empty the list
\* starts with that form; an empty normalised form is left out, so that the
\* list is then empty or starts with another variant, and no element of the
\* list is ever empty.
C15_NonEmptyPrimaryFormFirst ==
    (pc = "names_done" /\ Truthy(name)) =>
        /\ normalized # <<>> => (Len(variants) >= 1 /\ variants[1] = normalized)
        /\ normalized = <<>> =>
              (variants = <<>> \/ variants[1] \in VariantSet(name) \ {normalized})
        /\ \A k \in 1..Len(variants) : variants[k] # <<>>

\* an entirely parenthetical name: its normalised form is empty and the list
\* starts with the variant that replaced the parentheses by spaces
C15_Witness ==
    /\ pc = "names_done"
    /\ name = <<ChLParen, Cha, ChRParen>>
    /\ normalized = <<>>
    /\ variants = << <<Cha>> >>


-----------------------------------------------------------------------------
(* The classifier: load_allowed_species_codes *)

\* most data rows of a checklist
MaxLines == 2

\* raw[:50], lines 148 and 152
HeaderScanLimit == 50

ChQuote == 34
ChDigit0 == 48
ChDigit9 == 57

\* "PRIMARY_COM_NAME"
PRIMARY_COM_NAME == <<80, 82, 73, 77, 65, 82, 89, 95, 67, 79, 77, 95, 78, 65, 77, 69>>

\* "PRIMARY COM NAME"
PRIMARY_COM_NAME_SPACED == <<80, 82, 73, 77, 65, 82, 89, 32, 67, 79, 77, 32, 78, 65, 77, 69>>

\* "ENGLISH_NAME"
ENGLISH_NAME == <<69, 78, 71, 76, 73, 83, 72, 95, 78, 65, 77, 69>>

\* "English Name"
EnglishName == <<69, 110, 103, 108, 105, 115, 104, 32, 78, 97, 109, 101>>

\* "Common Name"
CommonName == <<67, 111, 109, 109, 111, 110, 32, 78, 97, 109, 101>>

\* "SPECIES_CODE"
SPECIES_CODE == <<83, 80, 69, 67, 73, 69, 83, 95, 67, 79, 68, 69>>

\* "code"
StrCode == <<99, 111, 100, 101>>

\* "name"
StrName == <<110, 97, 109, 101>>

\* ABA_CODE_KEYS, lines 86-88: abachecklistcode, abacode, code, abraritycode, raritycode, aba checklist code, aba rarity code, aba code
ABA_CODE_KEYS ==
    {<<97, 98, 97, 99, 104, 101, 99, 107, 108, 105, 115, 116, 99, 111, 100, 101>>,
     <<97, 98, 97, 99, 111, 100, 101>>,
     <<99, 111, 100, 101>>,
     <<97, 98, 114, 97, 114, 105, 116, 121, 99, 111, 100, 101>>,
     <<114, 97, 114, 105, 116, 121, 99, 111, 100, 101>>,
     <<97, 98, 97, 32, 99, 104, 101, 99, 107, 108, 105, 115, 116, 32, 99, 111, 100, 101>>,
     <<97, 98, 97, 32, 114, 97, 114, 105, 116, 121, 32, 99, 111, 100, 101>>,
     <<97, 98, 97, 32, 99, 111, 100, 101>>}

\* ABA_NAME_KEYS, lines 89-91: primary_com_name, common name, english name, name, primary com name, primary common name
ABA_NAME_KEYS ==
    {<<112, 114, 105, 109, 97, 114, 121, 95, 99, 111, 109, 95, 110, 97, 109, 101>>,
     <<99, 111, 109, 109, 111, 110, 32, 110, 97, 109, 101>>,
     <<101, 110, 103, 108, 105, 115, 104, 32, 110, 97, 109, 101>>,
     <<110, 97, 109, 101>>,
     <<112, 114, 105, 109, 97, 114, 121, 32, 99, 111, 109, 32, 110, 97, 109, 101>>,
     <<112, 114, 105, 109, 97, 114, 121, 32, 99, 111, 109, 109, 111, 110, 32, 110, 97, 109, 101>>}

\* column names and cells of the input files of the model
\* "primary_com_name"
ColPrimaryLower == <<112, 114, 105, 109, 97, 114, 121, 95, 99, 111, 109, 95, 110, 97, 109, 101>>

\* "species_code"
ColSpeciesLower == <<115, 112, 101, 99, 105, 101, 115, 95, 99, 111, 100, 101>>

\* "family"
ColFamily == <<102, 97, 109, 105, 108, 121>>

\* " ABA Code"
ColAbaCode == <<32, 65, 66, 65, 32, 67, 111, 100, 101>>

\* "species name"
ColSpeciesName == <<115, 112, 101, 99, 105, 101, 115, 32, 110, 97, 109, 101>>

\* "common name"
ColCommonNameLower == <<99, 111, 109, 109, 111, 110, 32, 110, 97, 109, 101>>

\* "ABA Checklist"
CellPreamble == <<65, 66, 65, 32, 67, 104, 101, 99, 107, 108, 105, 115, 116>>

\* "Steller's Sea-Eagle"
NmSteller == <<83, 116, 101, 108, 108, 101, 114, 39, 115, 32, 83, 101, 97, 45, 69, 97, 103, 108, 101>>

\* "a's"
NmPossessive == <<97, 39, 115>>

\* "(a)"
NmParen == <<40, 97, 41>>

\* "b"
NmUnknown == <<98>>

\* "A S"
TaxNameAS == <<65, 32, 83>>

\* "as"
TaxNameAs == <<97, 115>>

\* "As"
TaxNameAsUpper == <<65, 115>>

\* "a"
TaxNameA == <<97>>

\* "stseag1"
ScSteller == <<115, 116, 115, 101, 97, 103, 49>>

\* "steller s sea eagle"
NmStellerNormal == <<115, 116, 101, 108, 108, 101, 114, 32, 115, 32, 115, 101, 97, 32, 101, 97, 103, 108, 101>>

\* " P"
ScP == <<32, 80>>

\* "x"
ScX == <<120>>

\* "y"
ScY == <<121>>

\* "5"
Code5 == <<53>>

\* "4"
Code4 == <<52>>

\* "5*"
Code5Star == <<53, 42>>

\* "55"
Code55 == <<53, 53>>

\* str.upper()
Upper(s) == [k \in 1..Len(s) |-> IF s[k] >= 97 /\ s[k] <= 122 THEN s[k] - 32 ELSE s[k]]

\* `sub in s`
Contains(s, sub) ==
    \E k \in 0..(Len(s) - Len(sub)) : SubSeq(s, k + 1, k + Len(sub)) = sub

RECURSIVE LStripQuotes(_)
LStripQuotes(s) ==
    IF s # <<>> /\ Head(s) = ChQuote THEN LStripQuotes(Tail(s)) ELSE s

RECURSIVE RStripQuotes(_)
RStripQuotes(s) ==
    IF s # <<>> /\ s[Len(s)] = ChQuote
    THEN RStripQuotes(SubSeq(s, 1, Len(s) - 1)) ELSE s

\* str.strip('"')
StripQuotes(s) == RStripQuotes(LStripQuotes(s))

\* the elements of a list
Range(f) == {f[k] : k \in DOMAIN f}

\* position of the cell a DictReader row holds under the field `col`: the
\* last field of that name, 0 when there is none
RECURSIVE FieldIndex(_, _)
FieldIndex(header, col) ==
    IF header = <<>> THEN 0
    ELSE IF header[Len(header)] = col THEN Len(header)
    ELSE FieldIndex(SubSeq(header, 1, Len(header) - 1), col)

\* r.get(col) on a DictReader row: None for a field the header lacks and for
\* a field past the end of a short line
Get(header, r, col) ==
    LET k == FieldIndex(header, col)
    IN IF k = 0 \/ k > Len(r) THEN None ELSE r[k]

\* the candidates of line 116, in order
TaxNameCandidates ==
    <<PRIMARY_COM_NAME, PRIMARY_COM_NAME_SPACED, ENGLISH_NAME, EnglishName, CommonName>>

\* lines 114-119: the first candidate that is a column of the header
FirstCandidate(header) ==
    LET found == SelectSeq(TaxNameCandidates, LAMBDA c : c \in Range(header))
    IN IF found = <<>> THEN None ELSE found[1]

\* upper_map.get(key, default), upper_map = {c.upper(): c for c in header}
UpperMapGet(header, key, default) ==
    LET hits == SelectSeq(header, LAMBDA c : Upper(c) = key)
    IN IF hits = <<>> THEN default ELSE hits[Len(hits)]

\* `a or b`
Or(a, b) == IF Truthy(a) THEN a ELSE b

\* lines 114-127: the columns of the taxonomy, and whether line 127 exits
TaxColumns(header) ==
    LET first == FirstCandidate(header)
    IN IF first = None \/ SPECIES_CODE \notin Range(header)
       THEN LET nc == Or(UpperMapGet(header, PRIMARY_COM_NAME, None),
                         UpperMapGet(header, ENGLISH_NAME, None))
                sc == UpperMapGet(header, SPECIES_CODE, SPECIES_CODE)
            IN [name_cand |-> nc, spc_col |-> sc,
                exits |-> ~Truthy(nc) \/ ~Truthy(sc)]
       ELSE [name_cand |-> first, spc_col |-> SPECIES_CODE, exits |-> FALSE]

\* a lookup in which the first row of a name is kept
RECURSIVE BuildNameToCodeFirstWins(_, _, _, _)
BuildNameToCodeFirstWins(header, rows, nc, scol) ==
    IF rows = <<>> THEN <<>>
    ELSE LET before == BuildNameToCodeFirstWins(header, SubSeq(rows, 1, Len(rows) - 1), nc, scol)
             r == rows[Len(rows)]
             nm == normalize_name(Get(header, r, nc))
             sc == Lower(Strip(OrEmpty(Get(header, r, scol))))
         IN IF nm # <<>> /\ sc # <<>> /\ nm \notin DOMAIN before
            THEN [n \in DOMAIN before \cup {nm} |-> IF n = nm THEN sc ELSE before[n]]
            ELSE before

\* lines 129-134: name_to_code after the rows `rows`
RECURSIVE BuildNameToCode(_, _, _, _)
BuildNameToCode(header, rows, nc, scol) ==
    IF rows = <<>> THEN <<>>
    ELSE LET before == BuildNameToCode(header, SubSeq(rows, 1, Len(rows) - 1), nc, scol)
             r == rows[Len(rows)]
             nm == normalize_name(Get(header, r, nc))
             sc == Lower(Strip(OrEmpty(Get(header, r, scol))))
         IN IF nm # <<>> /\ sc # <<>>
            THEN [n \in DOMAIN before \cup {nm} |-> IF n = nm THEN sc ELSE before[n]]
            ELSE before

\* looks_like_header, lines 140-146, on the cells line.split(sep) returns
looks_like_header(cells) ==
    LET toks == [k \in 1..Len(cells) |-> Lower(StripQuotes(Strip(cells[k])))]
    IN /\ Len(toks) >= 3
       /\ \E k \in 1..Len(toks) : Contains(toks[k], StrCode)
       /\ \E k \in 1..Len(toks) : Contains(toks[k], StrName)

\* lines 148-154: index of the first line of raw[:50] that looks like a
\* header, 0 when there is none
RECURSIVE FindHeader(_, _)
FindHeader(lines, k) ==
    IF k > Len(lines) \/ k > HeaderScanLimit THEN 0
    ELSE IF looks_like_header(lines[k]) THEN k
    ELSE FindHeader(lines, k + 1)

\* detect_column, lines 93-98: the values it can return, one for each order
\* in which the set `want` is iterated
detect_column(header, want) ==
    LET hits == {h \in Range(header) :
                    /\ Lower(Strip(h)) \in want
                    /\ FieldIndex([k \in 1..Len(header) |-> Lower(Strip(header[k]))],
                                  Lower(Strip(h))) = FieldIndex(header, h)}
    IN IF hits = {} THEN {None} ELSE hits

\* next(iter(fieldnames), None)
FirstField(fieldnames) == IF fieldnames = <<>> THEN None ELSE fieldnames[1]

\* code_matcher, lines 167 and 171-175: the digit of `^\s*(\d)\b`, NoneNum
\* when the pattern does not match
MatchCode(cell) ==
    LET raw_code == LStrip(IF cell = None THEN <<78, 111, 110, 101>> ELSE Strip(cell))
    IN IF /\ raw_code # <<>>
          /\ raw_code[1] >= ChDigit0
          /\ raw_code[1] <= ChDigit9
          /\ (Len(raw_code) = 1 \/ ~IsWord(raw_code[2]))
       THEN raw_code[1] - ChDigit0
       ELSE NoneNum

\* a lookup that keeps the last variant that matches
LastMatch(vs, n2c) ==
    LET found == SelectSeq(vs, LAMBDA v : v \in DOMAIN n2c)
    IN IF found = <<>> THEN None ELSE n2c[found[Len(found)]]

\* lines 180-183: the code of the first variant that name_to_code holds
FirstMatch(vs, n2c) ==
    LET found == SelectSeq(vs, LAMBDA v : v \in DOMAIN n2c)
    IN IF found = <<>> THEN None ELSE n2c[found[1]]

\* sorted(S) of a set of strings
RECURSIVE SortedNames(_)
SortedNames(S) ==
    IF S = {} THEN <<>>
    ELSE LET m == CHOOSE x \in S : \A y \in S \ {x} : StrLess(x, y)
         IN <<m>> \o SortedNames(S \ {m})

\* the data rows of the checklist: the lines after the header line
DataRows == SubSeq(aba_lines, header_idx + 1, Len(aba_lines))

\* rdr.fieldnames
Fieldnames == aba_lines[header_idx]

\* the taxonomy tables of the model
TaxTables ==
    {<< <<NmSteller, ScSteller>>, <<TaxNameAs, ScX>> >>,
     << <<TaxNameAs, ScX>>, <<TaxNameA, ScY>> >>,
     << <<TaxNameAS, ScP>>, <<TaxNameAs, ScX>>, <<TaxNameA, <<>>>> >>,
     << <<TaxNameAs, ScX>>, <<TaxNameAsUpper, ScY>>, <<TaxNameAs, <<>>>> >>}

\* the data rows of the model: code, name and family; one line holds the
\* code only
RowChoices ==
    {<<Code5, NmSteller, ColFamily>>,
     <<Code5, NmPossessive, ColFamily>>,
     <<Code4, NmPossessive, ColFamily>>,
     <<Code5Star, NmParen, ColFamily>>,
     <<Code5, NmUnknown, ColFamily>>,
     <<Code4, NmUnknown, ColFamily>>,
     <<Code55, NmUnknown, ColFamily>>,
     <<Code5>>}

\* the taxonomy headers of the model
TaxHeaders ==
    {<<PRIMARY_COM_NAME, SPECIES_CODE>>,
     <<ColPrimaryLower, ColSpeciesLower>>,
     <<PRIMARY_COM_NAME, ColFamily>>,
     <<CommonName, ColFamily>>,
     <<CommonName, SPECIES_CODE>>,
     <<ColFamily, SPECIES_CODE>>}

\* the checklist headers of the model
AbaHeaders ==
    {<<StrCode, StrName, ColFamily>>,
     <<ColAbaCode, CommonName, ColFamily>>,
     <<ColCommonNameLower, ColSpeciesLower, ColFamily>>,
     <<StrCode, ColSpeciesName, ColFamily>>,
     <<StrCode, StrName>>,
     <<StrCode, ColAbaCode, StrName>>}

\* the inputs of the classifier: well-formed headers with every table, list
\* of data rows and tier selection, and every pair of headers, with or
\* without a preamble line, over one table and one data row
ClassifierInputs ==
    {[th |-> <<PRIMARY_COM_NAME, SPECIES_CODE>>, tr |-> t,
      lines |-> << <<StrCode, StrName, ColFamily>> >> \o rs, tc |-> tc] :
        t \in TaxTables, rs \in SeqsUpTo(RowChoices, MaxLines), tc \in {{5}, {4, 5}}}
    \cup
    {[th |-> h, tr |-> tr,
      lines |-> pre \o <<ah>> \o << <<Code5, NmSteller, ColFamily>> >>, tc |-> {5}] :
        h \in TaxHeaders, ah \in AbaHeaders,
        pre \in {<<>>, << <<CellPreamble>> >>},
        tr \in {<<>>, << <<NmSteller, ScSteller>> >>}}

ClassifyInit ==
    /\ pc = "classify"
    /\ FetchIdle
    /\ CapIdle
    /\ NamesIdle
    /\ \E inp \in ClassifierInputs :
          /\ tax_header = inp.th
          /\ tax_rows = inp.tr
          /\ aba_lines = inp.lines
          /\ target_codes = inp.tc
    /\ files = NoFiles
    /\ written = <<>>
    /\ exit_code = -1
    /\ mode = ""
    /\ allowed_set = {}
    /\ code4_set = {}
    /\ code5_set = {}
    /\ raw = <<>>
    /\ picked = <<>>
    /\ points = <<>>
    /\ markers = <<>>
    /\ fatal = ""
    /\ pickedArchive = <<>>
    /\ name_cand = None
    /\ spc_col = None
    /\ name_to_code = <<>>
    /\ header_idx = 0
    /\ code_col = None
    /\ name_col = None
    /\ row = 0
    /\ per_code_map = <<>>
    /\ unresolved = <<>>
    /\ row_variants = <<>>
    /\ unresolved_csv = NotWritten

\* what every step of the classifier leaves alone
ClassifyFrame ==
    UNCHANGED <<fetchVars, capVars, nameVars, mode, target_codes,
                code4_set, code5_set, raw, picked, points, markers,
                pickedArchive, tax_header, tax_rows, aba_lines>>

\* lines 106-108: one of the two files does not exist
ClassifyMissingInput ==
    /\ pc = "classify"
    /\ Fatal("missing_input")
    /\ ClassifyFrame
    /\ UNCHANGED <<files, written, allowed_set, name_cand, spc_col, name_to_code,
                   header_idx, code_col, name_col, row, per_code_map, unresolved,
                   row_variants, unresolved_csv>>

\* lines 110-134: the taxonomy is read, its columns are found and
\* name_to_code is built
ClassifyTaxonomy ==
    /\ pc = "classify"
    /\ LET header == IF tax_rows = <<>> THEN <<>> ELSE tax_header
           cols == TaxColumns(header)
       IN /\ name_cand' = cols.name_cand
          /\ spc_col' = cols.spc_col
          /\ IF cols.exits
             THEN /\ Fatal("taxonomy_columns")
                  /\ name_to_code' = name_to_code
             ELSE /\ name_to_code' =
                        BuildNameToCode(header, tax_rows, cols.name_cand, cols.spc_col)
                  /\ pc' = "find_header"
                  /\ UNCHANGED <<exit_code, fatal>>
    /\ ClassifyFrame
    /\ UNCHANGED <<files, written, allowed_set, header_idx, code_col, name_col, row,
                   per_code_map, unresolved, row_variants, unresolved_csv>>

\* lines 136-166: the header line of the checklist is located and its
\* columns are detected
ClassifyHeader ==
    /\ pc = "find_header"
    /\ LET idx == FindHeader(aba_lines, 1)
       IN /\ header_idx' = idx
          /\ IF idx = 0
             THEN /\ Fatal("header_row")
                  /\ UNCHANGED <<code_col, name_col, row, per_code_map>>
             ELSE \E cc \in detect_column(aba_lines[idx], ABA_CODE_KEYS) :
                  \E nc \in detect_column(aba_lines[idx], ABA_NAME_KEYS) :
                      /\ code_col' = Or(cc, FirstField(aba_lines[idx]))
                      /\ name_col' = nc
                      /\ IF ~Truthy(code_col') \/ ~Truthy(nc)
                         THEN /\ Fatal("aba_columns")
                              /\ UNCHANGED <<row, per_code_map>>
                         ELSE /\ per_code_map' = [c \in target_codes |-> {}]
                              /\ row' = 1
                              /\ pc' = "rows"
                              /\ UNCHANGED <<exit_code, fatal>>
    /\ ClassifyFrame
    /\ UNCHANGED <<files, written, allowed_set, name_cand, spc_col, name_to_code,
                   unresolved, row_variants, unresolved_csv>>

\* the rarity code of the data row k, NoneNum when it has none
CodeVal(k) == MatchCode(Get(Fieldnames, DataRows[k], code_col))

\* within one run a set built from the same strings is iterated in the same
\* order: an earlier row with the name nm had the same list of variants
SameOrderAsBefore(nm, vs) ==
    \A j \in 1..Len(row_variants) :
        (CodeVal(j) \in target_codes /\ Get(Fieldnames, DataRows[j], name_col) = nm)
            => row_variants[j] = vs

\* lines 170-187: one iteration of the loop over the rows
ClassifyRow ==
    /\ pc = "rows"
    /\ row <= Len(DataRows)
    /\ LET r == DataRows[row]
           code_val == CodeVal(row)
           nm == Get(Fieldnames, r, name_col)
       IN IF code_val = NoneNum \/ code_val \notin target_codes
          THEN /\ row_variants' = Append(row_variants, <<>>)
               /\ UNCHANGED <<per_code_map, unresolved>>
          ELSE \E vs \in expand_variants(nm) :
                  LET sc == FirstMatch(vs, name_to_code)
                  IN /\ SameOrderAsBefore(nm, vs)
                     /\ row_variants' = Append(row_variants, vs)
                     /\ IF Truthy(sc)
                        THEN /\ per_code_map' =
                                   [per_code_map EXCEPT ![code_val] = @ \cup {sc}]
                             /\ unresolved' = unresolved
                        ELSE /\ unresolved' = Append(unresolved, nm)
                             /\ per_code_map' = per_code_map
    /\ row' = row + 1
    /\ ClassifyFrame
    /\ UNCHANGED <<pc, exit_code, fatal, files, written, allowed_set, name_cand,
                   spc_col, name_to_code, header_idx, code_col, name_col,
                   unresolved_csv>>

\* lines 189-198: the tier files and the union file, as <<files, written>>
TierWrites(fs, tc, pcm) ==
    LET f4 == IF 4 \in tc THEN Write(fs, "out_dir/aba4.json", JsonList(pcm[4])) ELSE fs
        f5 == IF 5 \in tc THEN Write(f4, "out_dir/aba5.json", JsonList(pcm[5])) ELSE f4
        fa == Write(f5, "out_dir/aba_allowed.json", JsonList(UNION {pcm[c] : c \in tc}))
    IN <<fa,
         (IF 4 \in tc THEN <<"out_dir/aba4.json">> ELSE <<>>)
         \o (IF 5 \in tc THEN <<"out_dir/aba5.json">> ELSE <<>>)
         \o <<"out_dir/aba_allowed.json">>
         \o (IF 5 \in tc THEN <<"out_dir/aba5.json">> ELSE <<>>)>>

\* lines 189-205: the outputs are written and the union set is returned;
\* sorted(set(unresolved)) raises TypeError when the list holds None and a
\* string, after the header of unresolved_names.csv is written, and main
\* turns the exception into exit status 1 (lines 540-542)
ClassifyWrite ==
    /\ pc = "rows"
    /\ row > Len(DataRows)
    /\ LET names == Range(unresolved)
           w == TierWrites(files, target_codes, per_code_map)
       IN IF unresolved = <<>>
          THEN /\ files' = w[1]
               /\ written' = written \o w[2]
               /\ allowed_set' = UNION {per_code_map[c] : c \in target_codes}
               /\ pc' = "classified"
               /\ UNCHANGED <<unresolved_csv, exit_code, fatal>>
          ELSE /\ files' = Write(w[1], "out_dir/unresolved_names.csv", Text)
               /\ written' = written \o w[2] \o <<"out_dir/unresolved_names.csv">>
               /\ IF None \in names /\ names # {None}
                  THEN /\ unresolved_csv' = <<>>
                       /\ allowed_set' = allowed_set
                       /\ Fatal("exception")
                  ELSE /\ unresolved_csv' =
                             IF names = {None} THEN << <<>> >> ELSE SortedNames(names)
                       /\ allowed_set' = UNION {per_code_map[c] : c \in target_codes}
                       /\ pc' = "classified"
                       /\ UNCHANGED <<exit_code, fatal>>
    /\ ClassifyFrame
    /\ UNCHANGED <<name_cand, spc_col, name_to_code, header_idx, code_col, name_col,
                   row, per_code_map, unresolved, row_variants>>

ClassifyNext ==
    \/ ClassifyMissingInput
    \/ ClassifyTaxonomy
    \/ ClassifyHeader
    \/ ClassifyRow
    \/ ClassifyWrite

SpecClassify == ClassifyInit /\ [][ClassifyNext]_vars


-----------------------------------------------------------------------------
(* Properties of the classifier *)

\* the taxonomy rows that have a name and a species code
TaxEntries ==
    {t \in Range(tax_rows) :
        /\ normalize_name(Get(tax_header, t, name_cand)) # <<>>
        /\ Strip(OrEmpty(Get(tax_header, t, spc_col))) # <<>>}

\* the normalised names of the taxonomy
TaxNames == {normalize_name(Get(tax_header, t, name_cand)) : t \in TaxEntries}

\* the species codes the taxonomy gives for the normalised name n
TaxCodes(n) ==
    {Lower(Strip(Get(tax_header, t, spc_col))) :
        t \in {u \in TaxEntries : normalize_name(Get(tax_header, u, name_cand)) = n}}

\* the name of the data row k
RowName(k) == Get(Fieldnames, DataRows[k], name_col)

\* the positions of the variants of the processed row k that are names of
\* the taxonomy
Matching(k) == {j \in 1..Len(row_variants[k]) : row_variants[k][j] \in TaxNames}

\* the rows of the checklist have been read
RowsRead == pc = "classified" \/ (pc = "exit" /\ fatal = "exception")

\* C12: for every processed checklist row whose rarity code is a requested
\* tier and whose list of variants holds a normalised taxonomy name, the
\* tier's set holds a species code the taxonomy gives for the first such
\* variant; when the classifier returns, the tier's file holds it too.
C12_FirstMatchingVariantResolves ==
    pc \in {"rows", "classified", "exit"} =>
        \A k \in 1..Len(row_variants) :
            (CodeVal(k) \in target_codes /\ Matching(k) # {}) =>
                LET first == CHOOSE j \in Matching(k) : \A m \in Matching(k) : j <= m
                IN \E sc \in TaxCodes(row_variants[k][first]) :
                      /\ sc \in per_code_map[CodeVal(k)]
                      /\ pc = "classified" =>
                            sc \in files[IF CodeVal(k) = 4 THEN "out_dir/aba4.json"
                                         ELSE "out_dir/aba5.json"].codes

\* the checklist row (Steller's Sea-Eagle, 5) with the taxonomy row
\* (Steller's Sea-Eagle, stseag1): stseag1 is in the tier-5 set
C12_Witness ==
    /\ pc = "classified"
    /\ 5 \in target_codes
    /\ <<NmSteller, ScSteller>> \in Range(tax_rows)
    /\ \E k \in 1..Len(row_variants) :
          /\ CodeVal(k) = 5
          /\ RowName(k) = NmSteller
          /\ row_variants[k][1] = NmStellerNormal
    /\ ScSteller \in per_code_map[5]
    /\ ScSteller \in files["out_dir/aba5.json"].codes

\* C13: once the rows are read, a checklist row of a requested tier whose
\* name matches no taxonomy name under any variant has its name in the rows
\* of unresolved_names.csv, and every code of a tier set comes from a row of
\* that tier with a matching variant.
C13_UnmatchedRowIsReported ==
    RowsRead =>
        /\ \A k \in 1..Len(row_variants) :
              (/\ CodeVal(k) \in target_codes
               /\ Truthy(RowName(k))
               /\ Matching(k) = {})
              => \E j \in 1..Len(unresolved_csv) : unresolved_csv[j] = RowName(k)
        /\ \A c \in target_codes : \A sc \in per_code_map[c] :
              \E k \in 1..Len(row_variants) :
                  /\ CodeVal(k) = c
                  /\ \E j \in Matching(k) : sc \in TaxCodes(row_variants[k][j])

\* C19: when the classifier goes on to read the rows, each of the four
\* columns it uses was detected in the header of its file.
C19_NoDefaultColumn ==
    pc \in {"rows", "classified"} =>
        /\ name_cand \in Range(tax_header)
        /\ spc_col \in Range(tax_header)
        /\ code_col \in detect_column(Fieldnames, ABA_CODE_KEYS)
        /\ name_col \in detect_column(Fieldnames, ABA_NAME_KEYS)


\* the positions of the taxonomy rows that are loaded into the lookup under
\* the normalised name n: rows with a name and a species code
LoadedAs(n) ==
    {k \in 1..Len(tax_rows) :
        /\ tax_rows[k] \in TaxEntries
        /\ normalize_name(Get(tax_header, tax_rows[k], name_cand)) = n}

\* the taxonomy has been loaded
TaxonomyLoaded == pc \in {"find_header", "rows", "classified"}

\* C26: the lookup has one entry for every normalised name of the taxonomy,
\* and when several rows are loaded under the same normalised name the entry
\* is the species code of the last of them (a row without a name or without
\* a species code is not loaded and changes no entry).
C26_LastLoadedEntryWins ==
    TaxonomyLoaded =>
        /\ DOMAIN name_to_code = TaxNames
        /\ \A n \in TaxNames :
              LET last == CHOOSE k \in LoadedAs(n) : \A j \in LoadedAs(n) : j <= k
              IN name_to_code[n] = Lower(Strip(Get(tax_header, tax_rows[last], spc_col)))

\* two rows with different species codes are loaded under one normalised
\* name, and the lookup gives the code of the later one
C26_Witness ==
    /\ pc = "classified"
    /\ \E n \in TaxNames : \E i, j \in LoadedAs(n) :
          /\ i < j
          /\ Get(tax_header, tax_rows[i], spc_col) # Get(tax_header, tax_rows[j], spc_col)
          /\ name_to_code[n] = Lower(Strip(Get(tax_header, tax_rows[j], spc_col)))
          /\ name_to_code[n] # Lower(Strip(Get(tax_header, tax_rows[i], spc_col)))


\* the names of the checklist rows of a requested tier
TierRowNames ==
    {RowName(k) : k \in {j \in 1..Len(DataRows) : CodeVal(j) \in target_codes}}

\* the orders in which another run may iterate the variants of these names:
\* one list of variants for every name
OrderChoices ==
    {f \in [TierRowNames -> UNION {expand_variants(n) : n \in TierRowNames}] :
        \A n \in TierRowNames : f[n] \in expand_variants(n)}

\* the set of the tier c in a run that iterates the variants as f says
OutcomeUnder(f, c) ==
    {FirstMatch(f[RowName(k)], name_to_code) :
        k \in {j \in 1..Len(DataRows) : CodeVal(j) = c}} \ {None}

\* C28: the sets of the requested tiers do not depend on the order in which
\* expand_variants yields the variants after the first: a run of
\* load_allowed_species_codes on the same checklist, taxonomy and tiers that
\* iterates the variants in any other order ends with the same set for every
\* tier.
C28_ClassificationDeterministic ==
    pc = "classified" =>
        \A f \in OrderChoices : \A c \in target_codes :
            OutcomeUnder(f, c) = per_code_map[c]

====
